---------------------------- MODULE Spec2Model ----------------------------
(***************************************************************************)
(* Model of the greeting bot's roster store (src/database.py), bulk import *)
(* (src/migrate_to_sqlite.py), activation handler (src/telegram_bot/bot.py)*)
(* and content pipeline (src/gigachat_module/text_generator.py,            *)
(* src/gigachat_module/sincerity_evaluator.py).                            *)
(*                                                                         *)
(* SpecMint : referral-code minting racing with inserts and bulk import.   *)
(* SpecBot  : /start handlers and update_user_chat_id on the users table.  *)
(* SpecGen  : GigaChatTextGenerator.generate with the embedded             *)
(*            SincerityEvaluator.evaluate calls.                           *)
(* SpecQuery    : the matching queries get_users_by_birthday,              *)
(*                get_holidays_by_date and get_users_for_holiday.          *)
(* SpecDispatch : GreetingBot.check_and_send_greetings_for_date.           *)
(* SpecCode     : generate_unique_referral_code on the characters of the   *)
(*                code, called repeatedly by one caller.                   *)
(***************************************************************************)
EXTENDS Integers, Sequences, FiniteSets, TLC

(***************************************************************************)
(* Bounds of the model.                                                    *)
(***************************************************************************)
\* number of user ids (INTEGER PRIMARY KEY values) the model uses
MaxUserId == 2
\* number of distinct Telegram chat ids
MaxChatId == 2
\* number of concurrent generate_unique_referral_code callers
MaxProcs == 2
\* number of rows in an imported CSV file
MaxCsvRows == 2
\* the hash loop of generate_unique_referral_code runs max_attempts = 100
\* times (src/database.py:404); the model scales the loop down
max_attempts == 2

\* SQL NULL / Python None in a TEXT column
NULL == "<NULL>"

UserIds == 1..MaxUserId
ChatIds == 1..MaxChatId
Procs == 1..MaxProcs
\* referral codes are opaque strings here; two values are enough to collide
Codes == {"A", "B"}
\* TELEGRAM_ADMIN_IDS (src/telegram_bot/bot.py:49-50)
admin_ids == {1}
\* Telegram user ids that send commands
TgUserIds == 1..MaxUserId
\* concurrent handler coroutines of the bot's event loop
Handlers == {"h1", "h2"}

VARIABLES
    users,     \* table users: id -> [code, chat] for the rows present
    mint,      \* per caller: position inside generate_unique_referral_code
    hnd,       \* per handler coroutine: position inside start_command
    inserted,  \* outcome of the latest INSERT of a minted code
    g,         \* the locals of one GigaChatTextGenerator.generate call
    ev,        \* the locals of the SincerityEvaluator.evaluate call in progress
    hist,      \* what the content service saw during the generate call
    people,    \* table users as the matching queries read it
    holidays,  \* table holidays
    q,         \* the latest matching query and its answer
    disp,      \* the locals of one check_and_send_greetings_for_date run
    cm,        \* a caller minting codes one after the other, and its store
    tx,        \* one content-service response on its way to the returned text
    rt         \* the bot's event loop: its thread, its tasks and the mode state

storeVars == <<users, mint, hnd, inserted>>
genVars == <<g, ev, hist>>
readVars == <<people, holidays, q, disp>>
codeVars == <<cm>>
botVars == <<tx, rt>>
vars == <<users, mint, hnd, inserted, g, ev, hist, people, holidays, q, disp, cm,
          tx, rt>>

\* str(chat_id) as stored in telegram_chat_id
Str(n) == ToString(n)

\* Python truthiness of a TEXT value read from the table (None and '' are falsy)
Truthy(v) == v # NULL /\ v # ""

Row(code, chat) == [code |-> code, chat |-> chat]

(***************************************************************************)
(* Database                                                                *)
(***************************************************************************)
\* SELECT * FROM users WHERE referral_code = ? ; fetchone(): the ids matched
\* (a NULL column never equals the parameter)
get_user_by_referral_code(tbl, referral_code) ==
    {i \in DOMAIN tbl : tbl[i].code # NULL /\ tbl[i].code = referral_code}

\* id INTEGER PRIMARY KEY and referral_code TEXT UNIQUE: may the row be added
ConstraintsOK_NoUnique(tbl, id, code) == id \notin DOMAIN tbl

ConstraintsOK(tbl, id, code) ==
    /\ id \notin DOMAIN tbl
    /\ code # NULL => \A i \in DOMAIN tbl : tbl[i].code # code

\* the table with one more row
AddRow(tbl, id, row) ==
    [i \in DOMAIN tbl \cup {id} |-> IF i = id THEN row ELSE tbl[i]]

\* update_user_chat_id: user_id = 0 and referral_code = NULL stand for None
update_user_chat_id(tbl, user_id, referral_code, chat_id) ==
    IF chat_id = 0
    THEN [tbl |-> tbl, ok |-> FALSE]
    ELSE IF referral_code # NULL /\ referral_code # ""
    THEN LET hit == get_user_by_referral_code(tbl, referral_code)
         IN  [tbl |-> [i \in DOMAIN tbl |->
                         IF i \in hit THEN [tbl[i] EXCEPT !.chat = Str(chat_id)]
                                      ELSE tbl[i]],
              ok |-> hit # {}]
    ELSE IF user_id # 0
    THEN [tbl |-> [i \in DOMAIN tbl |->
                     IF i = user_id THEN [tbl[i] EXCEPT !.chat = Str(chat_id)]
                                    ELSE tbl[i]],
          ok |-> user_id \in DOMAIN tbl]
    ELSE [tbl |-> tbl, ok |-> FALSE]

(***************************************************************************)
(* generate_unique_referral_code, one step per store lookup                *)
(***************************************************************************)
MintIdle == [pc |-> "idle", attempt |-> 0, code |-> NULL, verified |-> FALSE]

\* the call starts: for attempt in range(max_attempts)
MintCall(p) ==
    /\ mint[p].pc = "idle"
    /\ mint' = [mint EXCEPT ![p] = [MintIdle EXCEPT !.pc = "loop"]]
    /\ UNCHANGED <<users, hnd, inserted>>
    /\ UNCHANGED <<genVars, readVars, codeVars, botVars>>

\* one iteration of the hash loop: build a candidate from a fresh salt, look
\* it up, return it when absent
MintAttempt(p) ==
    /\ mint[p].pc = "loop"
    /\ \E code \in Codes :
         IF get_user_by_referral_code(users, code) = {}
         THEN mint' = [mint EXCEPT ![p] =
                  [pc |-> "returned", attempt |-> mint[p].attempt,
                   code |-> code, verified |-> TRUE]]
         ELSE IF mint[p].attempt + 1 < max_attempts
         THEN mint' = [mint EXCEPT ![p].attempt = @ + 1]
         ELSE mint' = [mint EXCEPT ![p].pc = "fallback"]
    /\ UNCHANGED <<users, hnd, inserted>>
    /\ UNCHANGED <<genVars, readVars, codeVars, botVars>>

\* after the loop: the timestamp code is looked up once; when it collides the
\* extra-entropy code is built and returned as it is
MintFallback(p) ==
    /\ mint[p].pc = "fallback"
    /\ \E code \in Codes :
         IF get_user_by_referral_code(users, code) = {}
         THEN mint' = [mint EXCEPT ![p] =
                  [pc |-> "returned", attempt |-> mint[p].attempt,
                   code |-> code, verified |-> TRUE]]
         ELSE \E last \in Codes :
              mint' = [mint EXCEPT ![p] =
                  [pc |-> "returned", attempt |-> mint[p].attempt,
                   code |-> last, verified |-> FALSE]]
    /\ UNCHANGED <<users, hnd, inserted>>
    /\ UNCHANGED <<genVars, readVars, codeVars, botVars>>

\* INSERT INTO users of a row carrying the code the caller minted; the table
\* constraints reject a duplicate (sqlite3.IntegrityError, nothing stored)
InsertUser(p) ==
    /\ mint[p].pc = "returned"
    /\ \E id \in UserIds :
         IF ConstraintsOK(users, id, mint[p].code)
         THEN /\ users' = AddRow(users, id, Row(mint[p].code, NULL))
              /\ inserted' = "stored"
         ELSE /\ users' = users
              /\ inserted' = "rejected"
    /\ mint' = [mint EXCEPT ![p] = MintIdle]
    /\ UNCHANGED hnd
    /\ UNCHANGED <<genVars, readVars, codeVars, botVars>>

(***************************************************************************)
(* migrate_users                                                           *)
(***************************************************************************)
\* a CSV cell -> column value: row.get(..., '').strip() or None
CellOrNone(s) == IF s = "" THEN NULL ELSE s


CsvFiles ==
    LET CsvRows == [id : UserIds, referral_code : Codes \cup {""},
                    telegram_chat_id : {"", "1"}]
    IN  UNION {[1..n -> CsvRows] : n \in 0..MaxCsvRows}

RECURSIVE InsertRows(_, _, _)
\* the INSERT loop over the reader; [ok |-> FALSE] when an INSERT raises
InsertRows(tbl, rows, k) ==
    IF k > Len(rows) THEN [tbl |-> tbl, ok |-> TRUE]
    ELSE LET r == rows[k]
             code == CellOrNone(r.referral_code)
         IN  IF ConstraintsOK(tbl, r.id, code)
             THEN InsertRows(AddRow(tbl, r.id,
                      Row(code, CellOrNone(r.telegram_chat_id))), rows, k + 1)
             ELSE [tbl |-> tbl, ok |-> FALSE]

\* DELETE FROM users, the INSERT loop, commit; an exception leaves the
\* transaction uncommitted
migrate_users ==
    /\ \E rows \in CsvFiles :
         LET r == InsertRows(<<>>, rows, 1)
         IN  users' = IF r.ok THEN r.tbl ELSE users
    /\ UNCHANGED <<mint, hnd, inserted>>
    /\ UNCHANGED <<genVars, readVars, codeVars, botVars>>

(***************************************************************************)
(* GreetingBot.start_command                                               *)
(***************************************************************************)
_is_admin_Anyone(user_id) == TRUE

_is_admin(user_id) == user_id \in admin_ids

_is_referral_code_used(tbl, referral_code) ==
    LET hit == get_user_by_referral_code(tbl, referral_code)
    IN  hit # {} /\ \E i \in hit : Truthy(tbl[i].chat)

\* the ids found, {} for None
_find_user_by_referral_code(tbl, referral_code, check_used) ==
    LET hit == get_user_by_referral_code(tbl, referral_code)
    IN  IF hit = {} THEN {}
        ELSE IF check_used /\ \E i \in hit : Truthy(tbl[i].chat) THEN {}
        ELSE hit

\* the part of start_command that runs before its first await: the table
\* after it and the reply it is about to send. arg = "" is /start without
\* a code.
StartOutcome_NoUsedCheck(tbl, user_id, chat_id, arg) ==
    IF arg # ""
    THEN LET r == update_user_chat_id(tbl, 0, arg, chat_id)
         IN  IF r.ok THEN [tbl |-> r.tbl, reply |-> "activated"]
                     ELSE [tbl |-> tbl, reply |-> "invalid"]
    ELSE IF _is_admin(user_id)
    THEN [tbl |-> update_user_chat_id(tbl, user_id, NULL, chat_id).tbl,
          reply |-> "admin"]
    ELSE [tbl |-> tbl, reply |-> "need_code"]

StartOutcome(tbl, user_id, chat_id, arg) ==
    IF arg # ""
    THEN IF _is_referral_code_used(tbl, arg)
         THEN [tbl |-> tbl, reply |-> "used"]
         ELSE IF _find_user_by_referral_code(tbl, arg, TRUE) # {}
         THEN LET r == update_user_chat_id(tbl, 0, arg, chat_id)
              IN  IF r.ok THEN [tbl |-> r.tbl, reply |-> "activated"]
                          ELSE [tbl |-> tbl, reply |-> "error"]
         ELSE [tbl |-> tbl, reply |-> "invalid"]
    ELSE IF _is_admin(user_id)
    THEN [tbl |-> update_user_chat_id(tbl, user_id, NULL, chat_id).tbl,
          reply |-> "admin"]
    ELSE [tbl |-> tbl, reply |-> "need_code"]

HndIdle == [pc |-> "idle", arg |-> "", chat_id |-> 0, reply |-> ""]

\* /start <code> arrives: the handler runs up to await reply_text
start_command_code(h) ==
    /\ hnd[h].pc = "idle"
    /\ \E user_id \in TgUserIds, chat_id \in ChatIds, arg \in Codes :
         LET o == StartOutcome(users, user_id, chat_id, arg)
         IN  /\ users' = o.tbl
             /\ hnd' = [hnd EXCEPT ![h] = [pc |-> "reply", arg |-> arg,
                                           chat_id |-> chat_id,
                                           reply |-> o.reply]]
    /\ UNCHANGED <<mint, inserted>>
    /\ UNCHANGED <<genVars, readVars, codeVars, botVars>>

\* /start without a code arrives
start_command_plain(h) ==
    /\ hnd[h].pc = "idle"
    /\ \E user_id \in TgUserIds, chat_id \in ChatIds :
         LET o == StartOutcome(users, user_id, chat_id, "")
         IN  /\ users' = o.tbl
             /\ hnd' = [hnd EXCEPT ![h] = [pc |-> "reply", arg |-> "",
                                           chat_id |-> chat_id,
                                           reply |-> o.reply]]
    /\ UNCHANGED <<mint, inserted>>
    /\ UNCHANGED <<genVars, readVars, codeVars, botVars>>

\* await update.message.reply_text(...) completes, the handler returns
start_command_reply(h) ==
    /\ hnd[h].pc = "reply"
    /\ hnd' = [hnd EXCEPT ![h] = HndIdle]
    /\ UNCHANGED <<users, mint, inserted>>
    /\ UNCHANGED <<genVars, readVars, codeVars, botVars>>

\* Database.update_user_chat_id called with a referral code
UpdateByCode ==
    /\ \E referral_code \in Codes, chat_id \in {0} \cup ChatIds :
         users' = update_user_chat_id(users, 0, referral_code, chat_id).tbl
    /\ UNCHANGED <<mint, hnd, inserted>>
    /\ UNCHANGED <<genVars, readVars, codeVars, botVars>>

\* Database.update_user_chat_id called with a user id
UpdateById ==
    /\ \E user_id \in {0} \cup UserIds, chat_id \in {0} \cup ChatIds :
         users' = update_user_chat_id(users, user_id, NULL, chat_id).tbl
    /\ UNCHANGED <<mint, hnd, inserted>>
    /\ UNCHANGED <<genVars, readVars, codeVars, botVars>>

(***************************************************************************)
(* Text values.  A Python str or an SQLite TEXT value is the sequence of   *)
(* its characters.  A Cyrillic letter is written as "c" followed by its    *)
(* Latin name ("cd" is the small letter de), its capital with "C".         *)
(***************************************************************************)
\* None / SQL NULL where a text is expected
NoText == <<NULL>>

\* string.ascii_lowercase, string.ascii_uppercase, string.digits
ascii_lowercase ==
    <<"a", "b", "c", "d", "e", "f", "g", "h", "i", "j", "k", "l", "m",
      "n", "o", "p", "q", "r", "s", "t", "u", "v", "w", "x", "y", "z">>
ascii_uppercase ==
    <<"A", "B", "C", "D", "E", "F", "G", "H", "I", "J", "K", "L", "M",
      "N", "O", "P", "Q", "R", "S", "T", "U", "V", "W", "X", "Y", "Z">>
digits == <<"0", "1", "2", "3", "4", "5", "6", "7", "8", "9">>

cyrillic_lowercase ==
    <<"ca", "cb", "cv", "cg", "cd", "ce", "cyo", "czh", "cz", "ci", "cj",
      "ck", "cl", "cm", "cn", "co", "cp", "cr", "cs", "ct", "cu", "cf",
      "ch", "cts", "cch", "csh", "cshch", "chard", "cy", "csoft", "cee",
      "cyu", "cya">>

\* position of character c in seq, 0 when absent
IndexOf(seq, c) ==
    IF \E i \in DOMAIN seq : seq[i] = c
    THEN CHOOSE i \in DOMAIN seq : seq[i] = c
    ELSE 0

\* character c mapped from alphabet from to alphabet to, unchanged otherwise
MapChar(c, from, to) ==
    IF IndexOf(from, c) = 0 THEN c ELSE to[IndexOf(from, c)]

\* str.lower(): Unicode aware
str_lower(s) ==
    LET \* the Cyrillic capitals and their small letters
        cyrillic_uppercase ==
            <<"Ca", "Cb", "Cv", "Cg", "Cd", "Ce", "Cyo", "Czh", "Cz", "Ci", "Cj",
              "Ck", "Cl", "Cm", "Cn", "Co", "Cp", "Cr", "Cs", "Ct", "Cu", "Cf",
              "Ch", "Cts", "Cch", "Csh", "Cshch", "Chard", "Cy", "Csoft", "Cee",
              "Cyu", "Cya">>
    IN
    [i \in DOMAIN s |->
        MapChar(MapChar(s[i], ascii_uppercase, ascii_lowercase),
                cyrillic_uppercase, cyrillic_lowercase)]

\* SQLite LOWER() and UPPER(): ASCII letters only
sql_lower(s) == [i \in DOMAIN s |-> MapChar(s[i], ascii_uppercase, ascii_lowercase)]

\* Python `sub in s`
In(sub, s) ==
    \E i \in 0..(Len(s) - Len(sub)) : SubSeq(s, i + 1, i + Len(sub)) = sub

\* SQLite `s LIKE '%pat%'` for a pattern without wildcards of its own:
\* case-insensitive for ASCII letters only, NULL (not true) on NULL
like_contains(s, pat) == s # NoText /\ In(sql_lower(pat), sql_lower(s))

\* str.split(sep) for a one-character separator
RECURSIVE split(_, _)
split(s, sep) ==
    IF IndexOf(s, sep) = 0 THEN <<s>>
    ELSE LET i == CHOOSE k \in DOMAIN s :
                      s[k] = sep /\ \A j \in 1..(k - 1) : s[j] # sep
         IN  <<SubSeq(s, 1, i - 1)>> \o split(SubSeq(s, i + 1, Len(s)), sep)

\* str.zfill(width): zeros on the left, after a leading sign
zfill(s, width) ==
    LET zeros == [i \in 1..(width - Len(s)) |-> "0"]
    IN  IF Len(s) >= width THEN s
        ELSE IF s # <<>> /\ s[1] \in {"+", "-"}
        THEN <<s[1]>> \o zeros \o Tail(s)
        ELSE zeros \o s

\* the whitespace characters the sample texts use
Whitespace == {" ", "\n"}

\* str.rstrip() and str.strip()
RECURSIVE rstrip(_)
rstrip(s) ==
    IF s = <<>> THEN s
    ELSE IF s[Len(s)] \in Whitespace THEN rstrip(SubSeq(s, 1, Len(s) - 1))
    ELSE s

RECURSIVE strip(_)
strip(s) ==
    IF s = <<>> THEN s
    ELSE IF s[1] \in Whitespace THEN strip(Tail(s))
    ELSE rstrip(s)

\* SQLite SUBSTR(s, start, n) for start >= 1
SUBSTR(s, start, n) ==
    SubSeq(s, start, IF start + n - 1 < Len(s) THEN start + n - 1 ELSE Len(s))

\* the decimal digits of a natural number
RECURSIVE Dec(_)
Dec(n) == IF n < 10 THEN <<digits[n + 1]>> ELSE Dec(n \div 10) \o <<digits[(n % 10) + 1]>>

\* strftime: "%d.%m", "%d.%m.%Y", "%Y-%m-%d", and day.month written without
\* leading zeros
strftime(layout, y, m, d) ==
    CASE layout = "%d.%m" -> zfill(Dec(d), 2) \o <<".">> \o zfill(Dec(m), 2)
      [] layout = "%d.%m.%Y" ->
            zfill(Dec(d), 2) \o <<".">> \o zfill(Dec(m), 2) \o <<".">> \o Dec(y)
      [] layout = "%Y-%m-%d" ->
            Dec(y) \o <<"-">> \o zfill(Dec(m), 2) \o <<"-">> \o zfill(Dec(d), 2)
      [] layout = "d.m" -> Dec(d) \o <<".">> \o Dec(m)
      [] layout = "%m-%d" -> zfill(Dec(m), 2) \o <<"-">> \o zfill(Dec(d), 2)

(***************************************************************************)
(* Roster and holiday calendar as the matching queries read them           *)
(* (Database.get_users_by_birthday, get_holidays_by_date,                  *)
(* get_users_for_holiday).  A row carries the columns the queries use.     *)
(***************************************************************************)
\* the words of the audience markers and of the interest patterns
dlya == <<"cd", "cl", "cya">>
dlya_vsekh == dlya \o <<" ", "cv", "cs", "ce", "ch">>
dlya_muzhchin == dlya \o <<" ", "cm", "cu", "czh", "cch", "ci", "cn">>
dlya_zhenshchin == dlya \o <<" ", "czh", "ce", "cn", "cshch", "ci", "cn">>
dlya_sotrudnikov ==
    dlya \o <<" ", "cs", "co", "ct", "cr", "cu", "cd", "cn", "ci", "ck", "co", "cv">>
dlya_klientov == dlya \o <<" ", "ck", "cl", "ci", "ce", "cn", "ct", "co", "cv">>
kiberbezopasnost ==
    <<"ck", "ci", "cb", "ce", "cr", "cb", "ce", "cz", "co", "cp", "ca", "cs",
      "cn", "co", "cs", "ct">>
kiberbezopasnosti == kiberbezopasnost \o <<"ci">>
tekhnologii == <<"ct", "ce", "ch", "cn", "co", "cl", "co", "cg", "ci", "ci">>
gadzhety == <<"cg", "ca", "cd", "czh", "ce", "ct", "cy">>
male == <<"m", "a", "l", "e">>
female == <<"f", "e", "m", "a", "l", "e">>
employee == <<"e", "m", "p", "l", "o", "y", "e", "e">>
client == <<"c", "l", "i", "e", "n", "t">>

\* the calendar day each sample person was born on, <<year, month, day>>
Born == [i \in {1, 2, 3, 5} |->
            CASE i = 1 -> <<1990, 3, 8>>
              [] i = 2 -> <<2005, 3, 8>>
              [] i = 3 -> <<1990, 3, 8>>
              [] i = 5 -> <<2000, 8, 3>>]

\* birth_date as the roster file writes it: YYYY-MM-DD
BirthDate(id) == strftime("%Y-%m-%d", Born[id][1], Born[id][2], Born[id][3])

\* a row of table holidays
Holiday(id, holiday_name, date_fixed, description) ==
    [id |-> id, holiday_name |-> holiday_name, date_fixed |-> date_fixed,
     description |-> description]

den == <<"cd", "ce", "cn", "csoft">>

\* date_fixed is MM-DD, or a full date for holiday 2
SampleHolidays ==
    { Holiday(1, den, strftime("%m-%d", 0, 3, 8), dlya_zhenshchin),
      Holiday(2, den, strftime("%Y-%m-%d", 2024, 3, 8), dlya_vsekh),
      Holiday(3, den \o <<" ">> \o kiberbezopasnosti,
              strftime("%m-%d", 0, 8, 3), <<>>),
      Holiday(4, den, strftime("%m-%d", 0, 12, 31), dlya_sotrudnikov) }

\* the calendar days queried, <<year, month, day>>
QueryDates == {2024} \X {3, 8, 12} \X {3, 8, 31}

\* a query string with what it stands for: valid ones carry their month
\* and day, the others are not a complete date in either layout
DateInput(text, valid, m, d) == [text |-> text, valid |-> valid, m |-> m, d |-> d]

DateInputs ==
    LET \* the layouts a valid date is written in
        Layouts == {"%d.%m", "%d.%m.%Y", "%Y-%m-%d", "d.m"}
        ValidDateInputs ==
            { DateInput(strftime(l, ymd[1], ymd[2], ymd[3]), TRUE,
                        ymd[2], ymd[3]) :
                l \in Layouts, ymd \in QueryDates }
        MalformedDateInputs ==
            { DateInput(s, FALSE, 0, 0) :
                s \in { <<>>,
                        <<"0", "3", "0", "8">>,
                        <<"2", "0", "2", "4", "-", "0", "3">>,
                        <<"2", "0", "2", "4", "-", "0", "3", "-">>,
                        <<"-">>,
                        <<"8", ".">>,
                        <<".">> } }
    IN  ValidDateInputs \cup MalformedDateInputs

\* the normalisation both date queries start with: the targets of the
\* SELECT, "empty" for the early return [], "IndexError" when parts[2] is
\* missing
TargetDayMonth_DayFirst(date) ==
    IF In(<<".">>, date)
    THEN LET parts == split(date, ".")
         IN  [kind |-> "ok", target_day |-> zfill(parts[1], 2),
              target_month |-> zfill(parts[2], 2)]
    ELSE IF In(<<"-">>, date)
    THEN LET parts == split(date, "-")
         IN  IF Len(parts) < 3
             THEN [kind |-> "IndexError", target_day |-> <<>>,
                   target_month |-> <<>>]
             ELSE [kind |-> "ok", target_day |-> zfill(parts[2], 2),
                   target_month |-> zfill(parts[3], 2)]
    ELSE [kind |-> "empty", target_day |-> <<>>, target_month |-> <<>>]

TargetDayMonth(date) ==
    IF In(<<".">>, date)
    THEN LET parts == split(date, ".")
         IN  [kind |-> "ok", target_day |-> zfill(parts[1], 2),
              target_month |-> zfill(parts[2], 2)]
    ELSE IF In(<<"-">>, date)
    THEN LET parts == split(date, "-")
         IN  IF Len(parts) < 3
             THEN [kind |-> "IndexError", target_day |-> <<>>,
                   target_month |-> <<>>]
             ELSE [kind |-> "ok", target_day |-> zfill(parts[3], 2),
                   target_month |-> zfill(parts[2], 2)]
    ELSE [kind |-> "empty", target_day |-> <<>>, target_month |-> <<>>]

\* what a query hands back: the rows, or an exception
Returned(rows) == [raised |-> FALSE, rows |-> rows]
Raised == [raised |-> TRUE, rows |-> {}]

get_users_by_birthday(tbl, date) ==
    LET t == TargetDayMonth(date)
    IN  IF t.kind = "IndexError" THEN Raised
        ELSE IF t.kind = "empty" THEN Returned({})
        ELSE Returned({u \in tbl :
                 /\ u.birth_date # NoText
                 /\ u.birth_date # <<>>
                 /\ SUBSTR(u.birth_date, 6, 2) = t.target_month
                 /\ SUBSTR(u.birth_date, 9, 2) = t.target_day})

get_holidays_by_date(tbl, date) ==
    LET t == TargetDayMonth(date)
    IN  IF t.kind = "IndexError" THEN Raised
        ELSE IF t.kind = "empty" THEN Returned({})
        ELSE Returned({h \in tbl :
                 /\ h.date_fixed # NoText
                 /\ h.date_fixed # <<>>
                 /\ \/ /\ Len(h.date_fixed) = 5
                       /\ SUBSTR(h.date_fixed, 1, 2) = t.target_month
                       /\ SUBSTR(h.date_fixed, 4, 2) = t.target_day
                    \/ /\ Len(h.date_fixed) = 10
                       /\ SUBSTR(h.date_fixed, 6, 2) = t.target_month
                       /\ SUBSTR(h.date_fixed, 9, 2) = t.target_day})

\* telegram_chat_id IS NOT NULL AND telegram_chat_id != ''
base_condition_Dropped(u) == TRUE

base_condition(u) == u.telegram_chat_id # NoText /\ u.telegram_chat_id # <<>>

\* the interest test of the last rule
it_interests(u) ==
    LET sql_upper(s) == [i \in DOMAIN s |-> MapChar(s[i], ascii_lowercase, ascii_uppercase)]
    IN
    \/ like_contains(sql_upper(u.interests), <<"I", "T">>)
    \/ like_contains(sql_lower(u.interests), kiberbezopasnost \o <<"csoft">>)
    \/ like_contains(sql_lower(u.interests), tekhnologii)
    \/ like_contains(sql_lower(u.interests), gadzhety)

\* the if/elif ladder over the lower-cased description: the rule taken
audience_rule_MenFirst(description, holiday_name) ==
    IF In(dlya_muzhchin, description) THEN "male"
    ELSE IF In(dlya_vsekh, description) THEN "all"
    ELSE IF In(dlya_zhenshchin, description) THEN "female"
    ELSE IF In(dlya_sotrudnikov, description) THEN "employee"
    ELSE IF In(dlya_klientov, description) THEN "client"
    ELSE IF \/ In(<<"i", "t">>, str_lower(description))
            \/ In(kiberbezopasnosti, str_lower(holiday_name)) THEN "it"
    ELSE "none"

audience_rule(description, holiday_name) ==
    IF In(dlya_vsekh, description) THEN "all"
    ELSE IF In(dlya_muzhchin, description) THEN "male"
    ELSE IF In(dlya_zhenshchin, description) THEN "female"
    ELSE IF In(dlya_sotrudnikov, description) THEN "employee"
    ELSE IF In(dlya_klientov, description) THEN "client"
    ELSE IF \/ In(<<"i", "t">>, str_lower(description))
            \/ In(kiberbezopasnosti, str_lower(holiday_name)) THEN "it"
    ELSE "none"

\* None.lower() raises AttributeError when the dict holds a NULL description
get_users_for_holiday(tbl, holiday) ==
    IF holiday.description = NoText THEN Raised
    ELSE LET rule == audience_rule(str_lower(holiday.description),
                                   holiday.holiday_name)
         IN  Returned({u \in tbl :
                 /\ rule # "none"
                 /\ base_condition(u)
                 /\ CASE rule = "all" -> TRUE
                      [] rule = "male" -> sql_lower(u.gender) = male
                      [] rule = "female" -> sql_lower(u.gender) = female
                      [] rule = "employee" -> sql_lower(u.user_type) = employee
                      [] rule = "client" -> sql_lower(u.user_type) = client
                      [] rule = "it" -> it_interests(u)
                      [] OTHER -> FALSE})

\* the last query made and its answer
QIdle ==
    [fn |-> "none", date |-> DateInput(<<>>, FALSE, 0, 0),
     holiday |-> Holiday(0, <<>>, <<>>, <<>>), res |-> Returned({})]

\* a caller asks for the birthdays of a date
birthday_query ==
    /\ q.fn = "none"
    /\ \E inp \in DateInputs :
         q' = [QIdle EXCEPT !.fn = "get_users_by_birthday", !.date = inp,
                            !.res = get_users_by_birthday(people, inp.text)]
    /\ UNCHANGED <<people, holidays, disp>>
    /\ UNCHANGED <<storeVars, genVars, codeVars, botVars>>

\* a caller asks for the holidays of a date
holiday_query ==
    /\ q.fn = "none"
    /\ \E inp \in DateInputs :
         q' = [QIdle EXCEPT !.fn = "get_holidays_by_date", !.date = inp,
                            !.res = get_holidays_by_date(holidays, inp.text)]
    /\ UNCHANGED <<people, holidays, disp>>
    /\ UNCHANGED <<storeVars, genVars, codeVars, botVars>>

\* a caller asks for the recipients of a holiday
audience_query ==
    LET \* the holiday dicts passed to get_users_for_holiday, with the
        \* descriptions a holiday dict may carry
        HolidayArgs ==
            LET Descriptions ==
                    { dlya_vsekh, dlya_muzhchin, dlya_zhenshchin, dlya_sotrudnikov,
                      dlya_klientov,
                      <<"I", "T">>,
                      <<"Cd", "cl", "cya">> \o <<" ", "cv", "cs", "ce", "ch">>,
                      dlya_muzhchin \o <<" ">> \o dlya_vsekh,
                      dlya_klientov \o <<" ">> \o dlya_zhenshchin,
                      dlya_sotrudnikov \o <<" ", "I", "T">>,
                      tekhnologii,
                      gadzhety,
                      dlya,
                      <<>>,
                      NoText }
            IN  { Holiday(0, n, <<>>, d) :
                    n \in {den, den \o <<" ">> \o kiberbezopasnosti},
                    d \in Descriptions }
    IN
    /\ q.fn = "none"
    /\ \E h \in HolidayArgs :
         q' = [QIdle EXCEPT !.fn = "get_users_for_holiday", !.holiday = h,
                            !.res = get_users_for_holiday(people, h)]
    /\ UNCHANGED <<people, holidays, disp>>
    /\ UNCHANGED <<storeVars, genVars, codeVars, botVars>>

(***************************************************************************)
(* GreetingBot.check_and_send_greetings_for_date.  The rows of a SELECT    *)
(* without ORDER BY come in an order the code does not fix, so the loops   *)
(* take the remaining rows in any order.                                   *)
(***************************************************************************)
DispIdle ==
    [pc |-> "idle", date |-> <<0, 0, 0>>,
     birthdays |-> {}, holidays |-> {}, pairs |-> {},
     todo |-> {}, attempted |-> {}, skipped |-> {}, delivered |-> {}]

\* strptime succeeded; both date queries have answered
dispatch_start ==
    /\ disp.pc = "idle"
    /\ \E <<y, m, d>> \in QueryDates :
         LET b == get_users_by_birthday(people, strftime("%d.%m", y, m, d))
             h == get_holidays_by_date(holidays, strftime("%Y-%m-%d", y, m, d))
         IN  disp' = IF b.raised \/ h.raised
                     THEN [DispIdle EXCEPT !.pc = "raised", !.date = <<y, m, d>>]
                     ELSE [DispIdle EXCEPT !.pc = "birthdays",
                                           !.date = <<y, m, d>>,
                                           !.birthdays = b.rows,
                                           !.holidays = h.rows,
                                           !.todo = {<<"birthday", u>> : u \in b.rows}]
    /\ UNCHANGED <<people, holidays, q>>
    /\ UNCHANGED <<storeVars, genVars, codeVars, botVars>>

\* one pass of a `for user in ...` body: user.get('telegram_chat_id',
\* '').strip() outside the try (None has no strip: AttributeError leaves the
\* function), the skip of an empty chat id, the guarded send
LoopBody(d, item, outcome) ==
    IF item[2].telegram_chat_id = NoText
    THEN [d EXCEPT !.pc = "raised"]
    ELSE IF strip(item[2].telegram_chat_id) = <<>>
    THEN [d EXCEPT !.todo = @ \ {item}, !.skipped = @ \cup {item}]
    ELSE [d EXCEPT !.todo = @ \ {item}, !.attempted = @ \cup {item},
                   !.delivered = IF outcome = "sent" THEN @ \cup {item} ELSE @]

\* the birthday loop handles one of the remaining users; the outcome is
\* what happens inside send_birthday_greeting, which catches every
\* exception of generation and delivery
birthday_step ==
    /\ disp.pc = "birthdays"
    /\ \E item \in disp.todo,
            outcome \in {"sent", "generation_fault", "delivery_fault"} :
         disp' = LoopBody(disp, item, outcome)
    /\ UNCHANGED <<people, holidays, q>>
    /\ UNCHANGED <<storeVars, genVars, codeVars, botVars>>

\* the birthday loop is over: users_by_holiday is filled, one
\* get_users_for_holiday call per holiday of the date
resolve_recipients ==
    /\ disp.pc = "birthdays"
    /\ disp.todo = {}
    /\ LET users_by_holiday ==
               [h \in disp.holidays |-> get_users_for_holiday(people, h)]
           pairs == {it \in {<<"holiday", u, h>> : u \in people, h \in disp.holidays} :
                       it[2] \in users_by_holiday[it[3]].rows}
       IN  disp' = IF \E h \in disp.holidays : users_by_holiday[h].raised
                   THEN [disp EXCEPT !.pc = "raised"]
                   ELSE [disp EXCEPT !.pc = "holidays", !.pairs = pairs,
                                     !.todo = pairs]
    /\ UNCHANGED <<people, holidays, q>>
    /\ UNCHANGED <<storeVars, genVars, codeVars, botVars>>

\* the holiday loops handle one of the remaining (holiday, user) pairs
holiday_step ==
    /\ disp.pc = "holidays"
    /\ \E item \in disp.todo,
            outcome \in {"sent", "generation_fault", "delivery_fault"} :
         disp' = LoopBody(disp, item, outcome)
    /\ UNCHANGED <<people, holidays, q>>
    /\ UNCHANGED <<storeVars, genVars, codeVars, botVars>>

\* both loops are over: the function returns
dispatch_return ==
    /\ disp.pc = "holidays"
    /\ disp.todo = {}
    /\ disp' = [disp EXCEPT !.pc = "done"]
    /\ UNCHANGED <<people, holidays, q>>
    /\ UNCHANGED <<storeVars, genVars, codeVars, botVars>>

\* the scheduler's next run
dispatch_next ==
    /\ disp.pc \in {"done", "raised"}
    /\ disp' = DispIdle
    /\ UNCHANGED <<people, holidays, q>>
    /\ UNCHANGED <<storeVars, genVars, codeVars, botVars>>

\* the caller has taken the answer
query_return ==
    /\ q.fn # "none"
    /\ q' = QIdle
    /\ UNCHANGED <<people, holidays, disp>>
    /\ UNCHANGED <<storeVars, genVars, codeVars, botVars>>

(***************************************************************************)
(* Database.generate_unique_referral_code on the characters of the code,   *)
(* called again and again by one caller that stores each code it gets.     *)
(***************************************************************************)
\* number of calls the caller makes
MaxMints == 4

\* seq without every occurrence of character c: str.replace(c, '')
Remove(seq, c) ==
    LET Keep(x) == x # c
    IN  SelectSeq(seq, Keep)

\* string.ascii_letters + string.digits + '-_' after the five replace calls
alphabet ==
    Remove(Remove(Remove(Remove(Remove(
        ascii_lowercase \o ascii_uppercase \o digits \o <<"-", "_">>,
        "0"), "O"), "o"), "I"), "l")

\* bytes of a SHA-256 digest (hexdigest read two hex characters at a time)
DigestBytes == 32

\* the inner loop `for i in range(length)`: dgs[1] is the first digest,
\* dgs[k + 1] the one taken after k re-hashes (when hash_index reaches the
\* end of hash_hex)
code_chars(dgs, length) ==
    [i \in 1..length |->
        LET hash_obj == dgs[((i - 1) \div DigestBytes) + 1]
            byte == hash_obj[((i - 1) % DigestBytes) + 1]
        IN  alphabet[(byte % Len(alphabet)) + 1]]

RandomJoin(n) ==
    LET \* ''.join(secrets.choice(alphabet) for _ in range(n)); range(n) is empty
        \* for n <= 0
        RandomChars == {alphabet[1], alphabet[Len(alphabet)]}
    IN
    IF n <= 0 THEN {<<>>}
    ELSE {[i \in 1..n |-> c] : c \in RandomChars}

CmIdle ==
    [pc |-> "idle", length |-> 0, attempt |-> 0, code |-> <<>>,
     path |-> "none", store |-> {}, returned |-> {}, n |-> 0]

\* the caller calls generate_unique_referral_code(user_data, length)
code_call ==
    LET \* the lengths asked for; 11 is the default
        Lengths == {4, 7, 11}
    IN
    /\ cm.pc = "idle"
    /\ cm.n < MaxMints
    /\ \E length \in Lengths :
         cm' = [cm EXCEPT !.pc = "loop", !.length = length, !.attempt = 0,
                          !.code = <<>>, !.path = "none"]
    /\ UNCHANGED <<storeVars, genVars, readVars, botVars>>

\* one pass of `for attempt in range(max_attempts)`
code_attempt ==
    LET Digests ==
            { [i \in 1..DigestBytes |-> 48],
              [i \in 1..DigestBytes |-> (37 * i) % 256] }
    IN
    /\ cm.pc = "loop"
    /\ \E hash_obj \in Digests :
         LET code == code_chars(<<hash_obj>>, cm.length)
         IN  cm' = IF code \notin cm.store
                   THEN [cm EXCEPT !.pc = "returned", !.code = code,
                                   !.path = "hash"]
                   ELSE [cm EXCEPT !.attempt = @ + 1,
                                   !.pc = IF cm.attempt + 1 < max_attempts
                                          THEN "loop" ELSE "fallback"]
    /\ UNCHANGED <<storeVars, genVars, readVars, botVars>>

\* the code after the loop: the timestamp code, looked up, and the code with
\* extra entropy, returned as it is
code_fallback ==
    LET \* str(int(datetime.now().timestamp() * 1000000))[-6:]
        Timestamps ==
            { <<"1", "2", "3", "4", "5", "6">>, <<"9", "0", "0", "0", "0", "0">> }
        \* secrets.token_hex(1)
        TokenHex == { <<"0", "a">>, <<"f", "f">> }
    IN
    /\ cm.pc = "fallback"
    /\ \E timestamp \in Timestamps, r6 \in RandomJoin(cm.length - 6),
          r8 \in RandomJoin(cm.length - 8), hex \in TokenHex :
         LET code == r6 \o timestamp
         IN  cm' = IF code \notin cm.store
                   THEN [cm EXCEPT !.pc = "returned", !.code = code,
                                   !.path = "timestamp"]
                   ELSE [cm EXCEPT !.pc = "returned",
                                   !.code = r8 \o timestamp \o hex,
                                   !.path = "final"]
    /\ UNCHANGED <<storeVars, genVars, readVars, botVars>>

\* the caller stores the code it got (UNIQUE keeps one row per code) and
\* goes on to its next call
code_persist ==
    /\ cm.pc = "returned"
    /\ cm' = [cm EXCEPT !.pc = "idle", !.store = @ \cup {cm.code},
                        !.returned = @ \cup {cm.code}, !.n = @ + 1]
    /\ UNCHANGED <<storeVars, genVars, readVars, botVars>>


(***************************************************************************)
(* The text of a response on its way out of generate: the clean-up of      *)
(* duplicated signatures, the signature check, markdown_to_telegram_html   *)
(* and the final strip.                                                    *)
(***************************************************************************)
\* s[i..] starts with pat
StartsAt(s, pat, i) ==
    /\ i >= 1
    /\ i + Len(pat) - 1 <= Len(s)
    /\ SubSeq(s, i, i + Len(pat) - 1) = pat

\* the least member of a non-empty set of positions
Least(positions) == CHOOSE j \in positions : \A k \in positions : j <= k

\* the least position from i on whose character is in set cs, 0 when none
FirstOf(s, cs, i) ==
    LET hits == {j \in i..Len(s) : s[j] \in cs}
    IN  IF hits = {} THEN 0 ELSE Least(hits)

\* "С уважением", "Сбер", "от имени сотрудников и руководства"
s_uvazheniem ==
    <<"Cs", " ", "cu", "cv", "ca", "czh", "ce", "cn", "ci", "ce", "cm">>
sber == <<"Cs", "cb", "ce", "cr">>
ot_imeni ==
    <<"co", "ct", " ", "ci", "cm", "ce", "cn", "ci", " ",
      "cs", "co", "ct", "cr", "cu", "cd", "cn", "ci", "ck", "co", "cv", " ",
      "ci", " ",
      "cr", "cu", "ck", "co", "cv", "co", "cd", "cs", "ct", "cv", "ca">>

\* re.sub(pattern, '', s, flags=re.IGNORECASE) from position i on, for the
\* pattern  pre \s* post [^.]* \.  (pre = <<>> stands for the pattern
\* without the leading words): the text up to the leftmost match is kept,
\* the match is dropped
RECURSIVE re_sub_phrase(_, _, _, _)
re_sub_phrase(s, pre, post, i) ==
    LET low == str_lower(s)
        \* where the match that starts at k ends, 0 when there is none
        PhraseEnd(k) ==
            LET gap == {j \in (k + Len(pre))..Len(s) : s[j] \notin Whitespace}
                b == IF pre = <<>> THEN k
                     ELSE IF gap = {} THEN Len(s) + 1
                     ELSE Least(gap)
            IN  IF /\ StartsAt(low, str_lower(pre), k)
                   /\ StartsAt(low, str_lower(post), b)
                THEN FirstOf(s, {"."}, b + Len(post))
                ELSE 0
        starts == {k \in i..Len(s) : PhraseEnd(k) # 0}
    IN  IF starts = {} THEN SubSeq(s, i, Len(s))
        ELSE SubSeq(s, i, Least(starts) - 1)
             \o re_sub_phrase(s, pre, post, PhraseEnd(Least(starts)) + 1)

\* the signature check of generate
with_signature(greeting_text) ==
    LET stripped == rstrip(greeting_text)
        signature == <<"\n", "\n">> \o s_uvazheniem \o <<",", "\n">> \o sber
    IN  IF In(s_uvazheniem, greeting_text) /\ In(sber, greeting_text)
        THEN greeting_text
        ELSE IF /\ Len(sber) <= Len(stripped)
                /\ StartsAt(stripped, sber, Len(stripped) - Len(sber) + 1)
        THEN stripped
        ELSE stripped \o signature

\* part.replace("&", "&amp;").replace("<", "&lt;").replace(">", "&gt;")
RECURSIVE escaped(_)
escaped(part) ==
    LET k == FirstOf(part, {"&", "<", ">"}, 1)
    IN  IF k = 0 THEN part
        ELSE SubSeq(part, 1, k - 1)
             \o (CASE part[k] = "&" -> <<"&", "a", "m", "p", ";">>
                   [] part[k] = "<" -> <<"&", "l", "t", ";">>
                   [] part[k] = ">" -> <<"&", "g", "t", ";">>)
             \o escaped(SubSeq(part, k + 1, Len(part)))

\* escape_html_safe from position i on: the part before the leftmost match
\* of <[^>]+>, the match, and the rest; a part that looks like a tag is kept
RECURSIVE escape_html_safe(_, _)
escape_html_safe(s, i) ==
    LET TagEnd(k) ==
            IF s[k] = "<" /\ FirstOf(s, {">"}, k + 1) >= k + 2
            THEN FirstOf(s, {">"}, k + 1)
            ELSE 0
        escape_part(part) ==
            IF part # <<>> /\ part[1] = "<" /\ part[Len(part)] = ">"
            THEN part
            ELSE escaped(part)
        starts == {k \in i..Len(s) : TagEnd(k) # 0}
    IN  IF starts = {} THEN escape_part(SubSeq(s, i, Len(s)))
        ELSE escape_part(SubSeq(s, i, Least(starts) - 1))
             \o escape_part(SubSeq(s, Least(starts), TagEnd(Least(starts))))
             \o escape_html_safe(s, TagEnd(Least(starts)) + 1)

\* re.sub(r'\[([^\]]+?)\]\(([^\)]+?)\)', r'<a href="\2">\1</a>', s) from
\* position i on
RECURSIVE re_sub_link(_, _)
re_sub_link(s, i) ==
    LET \* the positions of "]" and ")" of the match that starts at n
        LinkAt(n) ==
            LET j == FirstOf(s, {"]"}, n + 1)
                k == IF j = 0 THEN 0 ELSE FirstOf(s, {")"}, j + 2)
            IN  IF /\ s[n] = "["
                   /\ j >= n + 2
                   /\ StartsAt(s, <<"]", "(">>, j)
                   /\ k >= j + 3
                THEN <<j, k>>
                ELSE <<0, 0>>
        starts == {n \in i..Len(s) : LinkAt(n) # <<0, 0>>}
        m == Least(starts)
        j == LinkAt(m)[1]
        k == LinkAt(m)[2]
    IN  IF starts = {} THEN SubSeq(s, i, Len(s))
        ELSE SubSeq(s, i, m - 1)
             \o <<"<", "a", " ", "h", "r", "e", "f", "=", "\"">>
             \o SubSeq(s, j + 2, k - 1) \o <<"\"", ">">>
             \o SubSeq(s, m + 1, j - 1) \o <<"<", "/", "a", ">">>
             \o re_sub_link(s, k + 1)

\* re.sub of  mark (content) mark  by <tag>content</tag>, from position i
\* on.  The content is one or more characters outside stop, as few as
\* possible; guard, when not "", is the character that may stand neither
\* before nor after the match.
RECURSIVE re_sub_span(_, _, _, _, _, _)
re_sub_span(s, mark, stop, guard, tag, i) ==
    LET \* where the closing mark of the match that starts at n begins
        SpanClose(n) ==
            LET c0 == n + Len(mark)
                js == {j \in (c0 + 1)..(Len(s) - Len(mark) + 1) :
                          /\ StartsAt(s, mark, j)
                          /\ \A k \in c0..(j - 1) : s[k] \notin stop
                          /\ \/ guard = ""
                             \/ j + Len(mark) > Len(s)
                             \/ s[j + Len(mark)] # guard}
            IN  IF /\ StartsAt(s, mark, n)
                   /\ guard = "" \/ n = 1 \/ s[n - 1] # guard
                   /\ js # {}
                THEN Least(js)
                ELSE 0
        starts == {n \in i..Len(s) : SpanClose(n) # 0}
        m == Least(starts)
        j == SpanClose(m)
    IN  IF starts = {} THEN SubSeq(s, i, Len(s))
        ELSE SubSeq(s, i, m - 1)
             \o <<"<">> \o tag \o <<">">>
             \o SubSeq(s, m + Len(mark), j - 1)
             \o <<"<", "/">> \o tag \o <<">">>
             \o re_sub_span(s, mark, stop, guard, tag, j + Len(mark))

\* the steps in the order of the code: escape, links, bold, italic, code
\* ("bq" is the backquote character), strikethrough
markdown_to_telegram_html(text) ==
    LET links == re_sub_link(escape_html_safe(text, 1), 1)
        bold == re_sub_span(re_sub_span(links, <<"*", "*">>, {"\n"}, "",
                                        <<"b">>, 1),
                            <<"_", "_">>, {"\n"}, "", <<"b">>, 1)
        italic == re_sub_span(re_sub_span(bold, <<"*">>, {"*", "\n"}, "*",
                                          <<"i">>, 1),
                              <<"_">>, {"_", "\n"}, "_", <<"i">>, 1)
        code == re_sub_span(italic, <<"bq">>, {"bq"}, "",
                            <<"c", "o", "d", "e">>, 1)
    IN  IF text = <<>> THEN text
        ELSE re_sub_span(code, <<"~", "~">>, {"\n"}, "", <<"s">>, 1)

TxIdle ==
    [pc |-> "idle", content |-> <<>>, url |-> <<>>, greeting_text |-> <<>>,
     returned |-> <<>>]

\* a response arrives: content.strip(), the two re.sub calls that drop
\* signatures "on behalf of the staff", and the signature check; an empty
\* content raises
response_text ==
    LET \* message.content of the sample responses, each with the URL of its
        \* Markdown link (<<>> when it has none): a body, followed by nothing, the
        \* canonical signature, the bank's name alone, signatures on behalf of the
        \* staff, or other spellings
        Contents ==
            LET Body(text, url) == [text |-> text, url |-> url]
                pozdravlyaem ==
                    <<"Cp", "co", "cz", "cd", "cr", "ca", "cv", "cl", "cya", "ce", "cm">>
                http_a == <<"h", "t", "t", "p", ":", "/", "/", "a", "/">>
                MdLink(label, url) == <<"[">> \o label \o <<"]", "(">> \o url \o <<")">>
                Bodies ==
                    { Body(pozdravlyaem \o <<"!">>, <<>>),
                      Body(<<"*", "*">> \o pozdravlyaem
                               \o <<"*", "*", " ", "_", "v", "_">>, <<>>),
                      Body(pozdravlyaem \o <<" ", "<", " ", "&", " ", ">", ".">>, <<>>),
                      Body(<<"<", "b", ">">> \o pozdravlyaem \o <<"<", "/", "b", ">">>,
                           <<>>),
                      Body(<<"bq", "x", "bq", " ", "~", "~", "y", "~", "~", " ",
                             "*", "z", "*">>, <<>>),
                      Body(MdLink(pozdravlyaem, http_a \o <<"b">>), http_a \o <<"b">>),
                      Body(MdLink(pozdravlyaem, http_a \o <<"_", "b", "_", "c">>),
                           http_a \o <<"_", "b", "_", "c">>),
                      Body(MdLink(<<"t">>, http_a \o <<"*", "b", "*">>) \o <<".">>,
                           http_a \o <<"*", "b", "*">>),
                      Body(<<" ">>, <<>>),
                      Body(<<>>, <<>>) }
                Tails ==
                    { <<>>,
                      <<"\n", "\n">> \o s_uvazheniem \o <<",", "\n">> \o sber,
                      <<"\n">> \o sber,
                      <<"\n">> \o s_uvazheniem \o <<",", " ">> \o ot_imeni
                          \o <<" ">> \o sber \o <<".">>,
                      <<"\n">> \o s_uvazheniem \o <<",", "\n">> \o ot_imeni
                          \o <<".", "\n">> \o sber,
                      <<"\n">> \o str_lower(s_uvazheniem) \o <<",", " ">>
                          \o str_lower(sber) \o <<" ">>,
                      <<"\n">> \o s_uvazheniem,
                      <<"\n">> \o sber \o <<"\n", " ">> }
            IN  { Body(b.text \o t, b.url) : b \in Bodies, t \in Tails }
    IN
    /\ tx.pc = "idle"
    /\ \E c \in Contents :
         tx' = IF strip(c.text) = <<>>
               THEN [TxIdle EXCEPT !.pc = "raised", !.content = c.text]
               ELSE [TxIdle EXCEPT
                        !.pc = "signed", !.content = c.text, !.url = c.url,
                        !.greeting_text =
                            with_signature(re_sub_phrase(
                                re_sub_phrase(strip(c.text),
                                              s_uvazheniem \o <<",">>,
                                              ot_imeni, 1),
                                <<>>, ot_imeni, 1))]
    /\ UNCHANGED <<rt, storeVars, genVars, readVars, codeVars>>

\* return markdown_to_telegram_html(...).strip()
convert_text ==
    /\ tx.pc = "signed"
    /\ tx' = [tx EXCEPT !.pc = "returned",
                        !.returned = strip(markdown_to_telegram_html(tx.greeting_text))]
    /\ UNCHANGED <<rt, storeVars, genVars, readVars, codeVars>>

\* the caller has the text or the exception
text_done ==
    /\ tx.pc \in {"returned", "raised"}
    /\ tx' = TxIdle
    /\ UNCHANGED <<rt, storeVars, genVars, readVars, codeVars>>

(***************************************************************************)
(* The bot at run time.  run_polling drives one asyncio event loop: one    *)
(* thread runs the handler of the update being processed and the           *)
(* scheduler's daily job, a coroutine gives the thread up only at an       *)
(* await, and a blocking call (time.sleep inside generate or evaluate)     *)
(* keeps it.                                                               *)
(***************************************************************************)
\* datetime.strptime(text, "%d.%m.%Y") succeeds (no ValueError): one or
\* two digits, one or two digits and four digits that name a calendar day
strptime_ok(text) ==
    LET parts == split(text, ".")
        digit(c) == IndexOf(digits, c) - 1
        int(p) == CASE Len(p) = 1 -> digit(p[1])
                    [] Len(p) = 2 -> digit(p[1]) * 10 + digit(p[2])
                    [] Len(p) = 4 -> digit(p[1]) * 1000 + digit(p[2]) * 100
                                     + digit(p[3]) * 10 + digit(p[4])
        d == int(parts[1])
        m == int(parts[2])
        y == int(parts[3])
        days == IF m = 2
                THEN IF (y % 4 = 0 /\ y % 100 # 0) \/ y % 400 = 0
                     THEN 29 ELSE 28
                ELSE IF m \in {4, 6, 9, 11} THEN 30 ELSE 31
    IN  /\ Len(parts) = 3
        /\ Len(parts[1]) \in {1, 2} /\ Len(parts[2]) \in {1, 2}
        /\ Len(parts[3]) = 4
        /\ \A p \in 1..3 : \A k \in 1..Len(parts[p]) :
               IndexOf(digits, parts[p][k]) # 0
        /\ y >= 1 /\ m \in 1..12 /\ d >= 1
        /\ d <= days

NoMessage == [user |-> 0, start |-> FALSE, arg |-> "", text |-> <<>>]

\* updates waiting at a time, greetings of a dispatch, sleeps of one
\* generate call
MaxInbox == 1
MaxGreetings == 1
MaxSleeps == 2

\* a coroutine: where it stands, the update it handles, the date it
\* dispatches, the greetings left, the sleeps of the generate call so far
TaskIdle == [pc |-> "idle", msg |-> NoMessage, date |-> <<>>, todo |-> 0,
             sleeps |-> 0]

Tasks == {"update", "job"}


\* a coroutine may step when the thread is free or its own
MayRun(t) == rt.thread \in {"free", t}

\* the thread after a step of t: kept while t runs or sleeps, free at an
\* await and at the end
Thread(t, tk) == IF tk.pc \in {"dispatch", "backoff"} THEN t ELSE "free"

\* Telegram delivers an update; it waits until the loop fetches it
message_arrives ==
    LET \* the updates: the sender, whether it is the /start command, the argument
        \* of /start, the text of a plain message
        Messages ==
            LET MessageTexts ==
                    { <<"+">>, <<"-">>, <<" ", "+", " ">>,
                      strftime("%d.%m.%Y", 2024, 3, 8),
                      strftime("d.m", 2024, 3, 8) \o <<".", "2", "0", "2", "4">>,
                      strftime("%d.%m.%Y", 2024, 2, 31),
                      strftime("%Y-%m-%d", 2024, 3, 8),
                      <<"h", "i">> }
            IN  [user : TgUserIds, start : {FALSE}, arg : {""}, text : MessageTexts]
                \cup [user : TgUserIds, start : {TRUE}, arg : {""} \cup Codes,
                      text : {<<>>}]
    IN
    /\ Len(rt.inbox) < MaxInbox
    /\ \E m \in Messages : rt' = [rt EXCEPT !.inbox = Append(@, m)]
    /\ UNCHANGED <<tx, storeVars, genVars, readVars, codeVars>>

\* datetime.now() is the last day of 2024
_get_current_date ==
    LET now == strftime("%d.%m.%Y", 2024, 12, 31)
    IN  IF rt.auto_mode THEN now
        ELSE IF rt.current_date # <<>> THEN rt.current_date
        ELSE now

\* handle_admin_message up to its first await or its return
handle_admin_message(r, m) ==
    LET text == strip(m.text)
        reply == [TaskIdle EXCEPT !.pc = "reply", !.msg = m]
    IN  IF ~_is_admin(m.user) THEN r
        ELSE IF text = <<"+">>
        THEN [r EXCEPT !.auto_mode = TRUE, !.current_date = <<>>,
                       !.task.update = reply]
        ELSE IF text = <<"-">>
        THEN [r EXCEPT !.auto_mode = FALSE, !.task.update = reply]
        ELSE IF strptime_ok(text)
        THEN [r EXCEPT !.current_date = text, !.auto_mode = FALSE,
                       !.task.update = [reply EXCEPT !.date = text]]
        ELSE [r EXCEPT !.task.update = reply]

\* the application takes the next update and runs its handler: /start goes
\* to start_command, any other text to handle_admin_message
take_update ==
    /\ rt.inbox # <<>>
    /\ rt.task.update.pc = "idle"
    /\ MayRun("update")
    /\ LET m == Head(rt.inbox)
           r == [rt EXCEPT !.inbox = Tail(@), !.last = m]
       IN  IF m.start
           THEN /\ users' = StartOutcome(users, m.user, m.user, m.arg).tbl
                /\ rt' = [r EXCEPT !.task.update =
                                       [TaskIdle EXCEPT !.pc = "reply", !.msg = m]]
           ELSE /\ users' = users
                /\ rt' = handle_admin_message(r, m)
    /\ UNCHANGED <<mint, hnd, inserted>>
    /\ UNCHANGED <<tx, genVars, readVars, codeVars>>

\* the scheduler's daily job: check_and_send_greetings
job_due ==
    /\ rt.task.job.pc = "idle"
    /\ MayRun("job")
    /\ \E n \in 0..MaxGreetings :
         rt' = [rt EXCEPT !.thread = "job",
                          !.task.job = [TaskIdle EXCEPT !.pc = "dispatch",
                                                        !.date = _get_current_date,
                                                        !.todo = n]]
    /\ UNCHANGED <<tx, storeVars, genVars, readVars, codeVars>>

\* await reply_text(...) completes: the handler returns, or, after a date,
\* calls check_and_send_greetings_for_date
reply_done ==
    /\ rt.task.update.pc = "reply"
    /\ MayRun("update")
    /\ \/ /\ rt.task.update.date = <<>>
          /\ rt' = [rt EXCEPT !.task.update = TaskIdle]
       \/ /\ rt.task.update.date # <<>>
          /\ \E n \in 0..MaxGreetings :
               rt' = [rt EXCEPT !.thread = "update",
                                !.task.update.pc = "dispatch",
                                !.task.update.todo = n]
    /\ UNCHANGED <<tx, storeVars, genVars, readVars, codeVars>>

\* generate_greeting_text called from send_*_greeting, or going on after a
\* sleep: it returns a text (then await send_photo), or sleeps before
\* another request, or raises (the greeting is given up)
Generate(tk, outcome) ==
    CASE outcome = "text" -> [tk EXCEPT !.pc = "send", !.sleeps = 0]
      [] outcome = "sleep" -> [tk EXCEPT !.pc = "backoff", !.sleeps = @ + 1]
      [] outcome = "raise" -> [tk EXCEPT !.pc = "dispatch", !.todo = @ - 1,
                                         !.sleeps = 0]

GenerateOutcomes(tk) ==
    {"text", "raise"} \cup (IF tk.sleeps < MaxSleeps THEN {"sleep"} ELSE {})

\* check_and_send_greetings_for_date goes to its next greeting, or ends
dispatch_greeting(t) ==
    /\ rt.task[t].pc = "dispatch"
    /\ MayRun(t)
    /\ LET tk == rt.task[t]
       IN  IF tk.todo = 0
           THEN rt' = [rt EXCEPT !.thread = "free",
                                 !.task[t] =
                                     IF t = "update"
                                     THEN [TaskIdle EXCEPT !.pc = "reply",
                                                           !.msg = tk.msg]
                                     ELSE TaskIdle]
           ELSE \E o \in GenerateOutcomes(tk) :
                    rt' = [rt EXCEPT !.thread = Thread(t, Generate(tk, o)),
                                     !.task[t] = Generate(tk, o)]
    /\ UNCHANGED <<tx, storeVars, genVars, readVars, codeVars>>

\* time.sleep(delay) returns inside generate (or evaluate)
wake(t) ==
    /\ rt.task[t].pc = "backoff"
    /\ MayRun(t)
    /\ \E o \in GenerateOutcomes(rt.task[t]) :
         rt' = [rt EXCEPT !.thread = Thread(t, Generate(rt.task[t], o)),
                          !.task[t] = Generate(rt.task[t], o)]
    /\ UNCHANGED <<tx, storeVars, genVars, readVars, codeVars>>

\* await send_photo(...) completes, with or without an error
send_done(t) ==
    /\ rt.task[t].pc = "send"
    /\ MayRun(t)
    /\ rt' = [rt EXCEPT !.thread = t,
                        !.task[t].pc = "dispatch",
                        !.task[t].todo = @ - 1]
    /\ UNCHANGED <<tx, storeVars, genVars, readVars, codeVars>>

(***************************************************************************)
(* Content pipeline: GigaChatTextGenerator.generate and                    *)
(* SincerityEvaluator.evaluate.  Scores are tenths (0.5 is 5), the         *)
(* weighted composite and min_sincerity are hundredths (0.6 is 60); a text *)
(* is named by the number of the attempt that produced it.                 *)
(***************************************************************************)
\* largest max_retries a caller of generate passes besides the values that
\* make the rate-limit ceiling reachable
MaxGenRetries == 2

\* max_rate_limit_retries of generate
max_rate_limit_retries == 5
\* max_retries of SincerityEvaluator.evaluate
eval_max_retries == 5
\* _get_retry_delay(attempt, base_delay = 5.0, max_delay = 120.0)
base_delay == 5
max_delay == 120
\* min_sincerity = 0.6
min_sincerity == 60
\* time.sleep(1.0) after a fault that is not a rate limit
short_delay == 1

Min2(a, b) == IF a < b THEN a ELSE b

\* a field of the JSON object the evaluation response carries
Num(n) == <<"num", n>>
Missing == <<"missing", 0>>

\* what one chat request of evaluate can come back with that is not a JSON
\* object: empty content, no choices, text json.loads rejects, JSON that is
\* not an object (result.get raises), or an exception of the client
EvalFailures == {"empty", "no_choices", "no_json", "not_object",
                 "rate_limit", "auth", "other"}

_is_rate_limit_error(e) == e = "rate_limit"

_get_retry_delay(attempt) == Min2(base_delay * (2 ^ attempt), max_delay)

\* result.get(key, 0.5) followed by _normalize_score
_normalize_score(raw) ==
    IF raw[1] = "num"
    THEN IF raw[2] < 0 THEN 0 ELSE IF raw[2] > 10 THEN 10 ELSE raw[2]
    ELSE 5

Scores(s, w, p, a) == [s |-> s, w |-> w, p |-> p, a |-> a]

_default_scores == Scores(5, 5, 5, 5)

\* evaluate on a blank text
ZeroScores == Scores(0, 0, 0, 0)

NormalizedScores(prof) ==
    Scores(_normalize_score(prof.s), _normalize_score(prof.w),
           _normalize_score(prof.p), _normalize_score(prof.a))

\* weighted_score of is_sincere_enough, in hundredths
weighted_score(sc) == sc.s * 4 + sc.w * 2 + sc.p * 2 + sc.a * 2

is_sincere(sc) == weighted_score(sc) >= min_sincerity

GIdle ==
    [pc |-> "idle", evaluate_sincerity |-> FALSE, max_retries |-> 0,
     attempt |-> 0, rate_limit_retries |-> 0, blank |-> FALSE,
     best_text |-> 0, best_sinc |-> 0, result |-> 0, err |-> "",
     sleep |-> 0]

EvIdle ==
    [status |-> "idle", attempt |-> 0, reqs |-> 0, last |-> "",
     scores |-> ZeroScores, sleep |-> 0, rl |-> 0]

HistIdle ==
    [genReqs |-> 0, rlFaults |-> 0, fault |-> FALSE, lastGen |-> "",
     maxComp |-> -1, bestComp |-> -1, passedAt |-> 0]

\* the code after the for loop: the best text, or the final exception
AfterLoop_Raise(gs) ==
    [gs EXCEPT !.pc = "raised", !.err = "exhausted"]

AfterLoop(gs) ==
    IF gs.best_text # 0
    THEN [gs EXCEPT !.pc = "returned", !.result = gs.best_text]
    ELSE [gs EXCEPT !.pc = "raised", !.err = "exhausted"]

\* continue: the for loop takes the next value of attempt, or ends
Continue_OffByOne(gs) ==
    IF gs.attempt + 1 <= gs.max_retries + 1
    THEN [gs EXCEPT !.pc = "request", !.attempt = @ + 1]
    ELSE AfterLoop(gs)

Continue(gs) ==
    IF gs.attempt + 1 <= gs.max_retries
    THEN [gs EXCEPT !.pc = "request", !.attempt = @ + 1]
    ELSE AfterLoop(gs)

\* the except branch of generate for the exception e
OnGenFault_NoRetry(gs, e) ==
    IF _is_rate_limit_error(e)
    THEN LET n == gs.rate_limit_retries + 1
         IN  IF n > max_rate_limit_retries
             THEN [gs EXCEPT !.pc = "raised", !.err = "rate_limit",
                             !.rate_limit_retries = n]
             ELSE Continue([gs EXCEPT !.rate_limit_retries = n,
                                      !.sleep = _get_retry_delay(n - 1)])
    ELSE [gs EXCEPT !.pc = "raised", !.err = "other"]

OnGenFault(gs, e) ==
    IF _is_rate_limit_error(e)
    THEN LET n == gs.rate_limit_retries + 1
         IN  IF n > max_rate_limit_retries
             THEN [gs EXCEPT !.pc = "raised", !.err = "rate_limit",
                             !.rate_limit_retries = n]
             ELSE Continue([gs EXCEPT !.rate_limit_retries = n,
                                      !.sleep = _get_retry_delay(n - 1)])
    ELSE IF gs.attempt >= gs.max_retries
    THEN [gs EXCEPT !.pc = "raised", !.err = "other"]
    ELSE Continue([gs EXCEPT !.sleep = short_delay])

\* generate(..., evaluate_sincerity, max_retries) is called
GenCall ==
    LET \* values of max_retries the calls of the model pass: the small ones with
        \* and without evaluation, and without evaluation the value that lets six
        \* rate-limited requests follow one another
        RetryChoices(e) ==
            IF e THEN 0..MaxGenRetries
                 ELSE (0..MaxGenRetries) \cup {max_rate_limit_retries}
    IN
    /\ g.pc = "idle"
    /\ \E e \in BOOLEAN : \E mr \in RetryChoices(e) :
         g' = [GIdle EXCEPT !.pc = "request", !.evaluate_sincerity = e,
                            !.max_retries = mr]
    /\ ev' = EvIdle
    /\ hist' = HistIdle
    /\ UNCHANGED <<storeVars, readVars, codeVars, botVars>>

\* self.api.client.chat(chat_payload) of generate and what follows it up to
\* the next request
GenRequest ==
    LET \* what one chat request of generate can come back with: a usable text, a
        \* text that is blank once its <...> spans are removed, an empty content,
        \* a response without choices, or an exception of the client
        GenOutcomes == {"ok", "ok_tag_only", "empty", "no_choices",
                        "rate_limit", "auth", "other"}
    IN
    /\ g.pc = "request"
    /\ \E o \in GenOutcomes :
         /\ hist' = [hist EXCEPT !.genReqs = @ + 1,
                                 !.rlFaults = IF o = "rate_limit"
                                              THEN @ + 1 ELSE @,
                                 !.fault = @ \/ o \notin {"ok", "ok_tag_only"},
                                 !.lastGen = o]
         /\ IF o \in {"ok", "ok_tag_only"}
            THEN IF g.evaluate_sincerity
                 THEN g' = [g EXCEPT !.pc = "eval1",
                                     !.rate_limit_retries = 0,
                                     !.blank = (o = "ok_tag_only")]
                 ELSE g' = [g EXCEPT !.pc = "returned",
                                     !.rate_limit_retries = 0,
                                     !.result = g.attempt + 1]
            ELSE IF o \in {"empty", "no_choices"}
            THEN g' = OnGenFault([g EXCEPT !.rate_limit_retries = 0], "other")
            ELSE g' = OnGenFault(g, o)
    /\ ev' = [EvIdle EXCEPT !.status = "running"]
    /\ UNCHANGED <<storeVars, readVars, codeVars, botVars>>

\* what evaluate does with the outcome of the request of its loop pass
\* `attempt`: return scores, go round again, or let an exception out
EvalStep_Reraise(attempt, o) ==
    IF o.kind = "ok"
    THEN [kind |-> "return", scores |-> NormalizedScores(o.prof), sleep |-> 0]
    ELSE IF o.kind = "no_json"
    THEN [kind |-> "return", scores |-> _default_scores, sleep |-> 0]
    ELSE IF o.kind \in {"empty", "no_choices"}
    THEN IF attempt >= eval_max_retries
         THEN [kind |-> "return", scores |-> _default_scores, sleep |-> 0]
         ELSE [kind |-> "retry", scores |-> ZeroScores, sleep |-> 0]
    ELSE IF attempt >= eval_max_retries
    THEN [kind |-> "raise", scores |-> ZeroScores, sleep |-> 0]
    ELSE [kind |-> "retry", scores |-> ZeroScores,
          sleep |-> IF _is_rate_limit_error(o.kind)
                    THEN _get_retry_delay(attempt) ELSE short_delay]

EvalStep(attempt, o) ==
    IF o.kind = "ok"
    THEN [kind |-> "return", scores |-> NormalizedScores(o.prof), sleep |-> 0]
    ELSE IF o.kind = "no_json"
    THEN [kind |-> "return", scores |-> _default_scores, sleep |-> 0]
    ELSE IF o.kind \in {"empty", "no_choices"}
    THEN IF attempt >= eval_max_retries
         THEN [kind |-> "return", scores |-> _default_scores, sleep |-> 0]
         ELSE [kind |-> "retry", scores |-> ZeroScores, sleep |-> 0]
    ELSE IF attempt >= eval_max_retries
    THEN [kind |-> "return", scores |-> _default_scores, sleep |-> 0]
    ELSE [kind |-> "retry", scores |-> ZeroScores,
          sleep |-> IF _is_rate_limit_error(o.kind)
                    THEN _get_retry_delay(attempt) ELSE short_delay]

\* the state of generate once the evaluate call it waits for is over
Scored(gs) == [gs EXCEPT !.pc = IF gs.pc = "eval1" THEN "scored1" ELSE "scored2"]

\* self.api.client.chat(chat_payload) of evaluate, called from generate
\* (line 401) or from is_sincere_enough (line 412)
EvalRequest ==
    LET EvalOutcomes ==
            LET NotANumber == <<"bad", 0>>
                \* JSON objects the evaluation response can carry
                ScoreProfiles ==
                    { [s |-> Num(9),  w |-> Num(9),  p |-> Num(9),  a |-> Num(9)],
                      [s |-> Num(3),  w |-> Num(3),  p |-> Num(3),  a |-> Num(3)],
                      [s |-> Num(5),  w |-> Num(3),  p |-> Num(3),  a |-> Num(3)],
                      [s |-> Num(3),  w |-> Num(9),  p |-> Num(9),  a |-> Num(9)],
                      [s |-> Num(12), w |-> Num(-1), p |-> Missing, a |-> NotANumber] }
                \* an answer to the request of evaluate: a JSON object or a failure
                NoProfile == [s |-> Missing, w |-> Missing, p |-> Missing, a |-> Missing]
            IN
            {[kind |-> "ok", prof |-> pr] : pr \in ScoreProfiles} \cup
            {[kind |-> k, prof |-> NoProfile] : k \in EvalFailures}
    IN
    /\ g.pc \in {"eval1", "eval2"}
    /\ ~g.blank
    /\ \E o \in EvalOutcomes :
         LET r == EvalStep(ev.attempt, o)
             last == o.kind
         IN  /\ hist' = [hist EXCEPT !.fault = @ \/ o.kind # "ok"]
             /\ IF r.kind = "retry"
                THEN /\ ev' = [ev EXCEPT !.attempt = @ + 1, !.reqs = @ + 1,
                                         !.last = last, !.sleep = r.sleep,
                                         !.rl = IF _is_rate_limit_error(o.kind)
                                                THEN @ + 1 ELSE @]
                     /\ g' = g
                ELSE /\ ev' = [ev EXCEPT !.reqs = @ + 1, !.last = last,
                                  !.scores = r.scores,
                                  !.status = IF r.kind = "return"
                                             THEN "returned" ELSE "raised"]
                     /\ g' = Scored(g)
    /\ UNCHANGED <<storeVars, readVars, codeVars, botVars>>

\* evaluate on a text that is blank: all zero, no request
EvalBlank ==
    /\ g.pc \in {"eval1", "eval2"}
    /\ g.blank
    /\ ev' = [ev EXCEPT !.status = "returned", !.scores = ZeroScores,
                        !.last = "blank"]
    /\ g' = Scored(g)
    /\ UNCHANGED <<hist, storeVars, readVars, codeVars, botVars>>

\* "keep the best variant" (lines 406-409), then is_sincere_enough is called
TrackBest ==
    /\ g.pc = "scored1"
    /\ g' = IF g.best_text = 0 \/ ev.scores.s > g.best_sinc
            THEN [g EXCEPT !.pc = "eval2", !.best_text = g.attempt + 1,
                           !.best_sinc = ev.scores.s]
            ELSE [g EXCEPT !.pc = "eval2"]
    /\ ev' = [EvIdle EXCEPT !.status = "running"]
    /\ UNCHANGED <<hist, storeVars, readVars, codeVars, botVars>>

\* the attempt is accepted, or the prompt is strengthened and the loop goes on
Decide_NoBreak(gs, sincere) ==
    IF gs.attempt >= gs.max_retries THEN AfterLoop(gs) ELSE Continue(gs)

Decide(gs, sincere) ==
    IF sincere \/ gs.attempt >= gs.max_retries
    THEN AfterLoop(gs)
    ELSE Continue(gs)

\* is_sincere_enough has returned (lines 412-439)
Accept ==
    LET Max2(a, b) == IF a > b THEN a ELSE b
    IN
    /\ g.pc = "scored2"
    /\ LET c == weighted_score(ev.scores)
       IN  /\ hist' = [hist EXCEPT
                  !.maxComp = Max2(@, c),
                  !.bestComp = IF g.best_text = g.attempt + 1 THEN c ELSE @,
                  !.passedAt = IF @ = 0 /\ is_sincere(ev.scores)
                               THEN g.attempt + 1 ELSE @]
           /\ g' = Decide(g, is_sincere(ev.scores))
    /\ UNCHANGED <<ev, storeVars, readVars, codeVars, botVars>>

\* the caller has the text or the exception; the generator is free again
GenDone ==
    /\ g.pc \in {"returned", "raised"}
    /\ g' = GIdle
    /\ ev' = EvIdle
    /\ hist' = HistIdle
    /\ UNCHANGED <<storeVars, readVars, codeVars, botVars>>

\* no caller, handler or coroutine has started
Idle ==
    /\ mint = [p \in Procs |-> MintIdle]
    /\ hnd = [h \in Handlers |-> HndIdle]
    /\ inserted = "none"
    /\ g = GIdle
    /\ ev = EvIdle
    /\ hist = HistIdle
    /\ q = QIdle
    /\ disp = DispIdle
    /\ cm = CmIdle
    /\ tx = TxIdle
    /\ rt = [thread |-> "free", task |-> [t \in Tasks |-> TaskIdle],
             inbox |-> <<>>, auto_mode |-> TRUE, current_date |-> <<>>,
             last |-> NoMessage]

\* the empty tables _init_database creates, and nothing started
IdleInit ==
    /\ users = <<>>
    /\ people = {}
    /\ holidays = {}
    /\ Idle

NextGen ==
    \/ GenCall
    \/ GenRequest
    \/ EvalRequest
    \/ EvalBlank
    \/ TrackBest
    \/ Accept
    \/ GenDone

SpecGen == IdleInit /\ [][NextGen]_vars

\* a request in flight is answered and the local steps are taken
SpecGenFair ==
    /\ SpecGen
    /\ WF_vars(GenRequest) /\ WF_vars(EvalRequest) /\ WF_vars(EvalBlank)
    /\ WF_vars(TrackBest) /\ WF_vars(Accept)

(***************************************************************************)
(* Properties of the content pipeline                                      *)
(***************************************************************************)
\* C5: a rate-limited fault does not use up a quality-retry attempt: a call
\* that gives up for another reason than the rate-limit ceiling has made
\* max_retries + 1 generation requests that were not rate limited.
C5_RateLimitKeepsAttemptBudget ==
    (g.pc = "raised" /\ g.err # "rate_limit") =>
        hist.genReqs - hist.rlFaults = g.max_retries + 1

\* C6: a call that ends in a fault right after a rate-limited request ends
\* with the rate-limit fatal fault, and it does so only when more than
\* max_rate_limit_retries rate-limited requests followed one another.
C6_RateLimitFatalOnlyAtCeiling ==
    /\ (g.pc = "raised" /\ hist.lastGen = "rate_limit") =>
           g.err = "rate_limit"
    /\ (g.pc = "raised" /\ g.err = "rate_limit") =>
           g.rate_limit_retries > max_rate_limit_retries

\* C7: with evaluation on and no fault, generate issues requests up to the
\* first attempt whose weighted composite meets min_sincerity and at most
\* max_retries + 1 of them: one when the first attempt passes,
\* max_retries + 1 when none passes.
C7_RequestsUntilFirstPass ==
    (g.pc = "returned" /\ g.evaluate_sincerity /\ ~hist.fault) =>
        /\ hist.genReqs <= g.max_retries + 1
        /\ hist.genReqs = IF hist.passedAt > 0 THEN hist.passedAt
                                               ELSE g.max_retries + 1

\* no attempt of a call with max_retries = 2 passed: three requests
C7_Witness ==
    /\ g.pc = "returned" /\ g.evaluate_sincerity /\ ~hist.fault
    /\ g.max_retries = 2 /\ hist.passedAt = 0 /\ hist.genReqs = 3

\* C8: with evaluation on, the text generate returns is the one of the
\* attempt with the highest weighted composite among the scored attempts.
C8_ReturnsHighestComposite ==
    (g.pc = "returned" /\ g.evaluate_sincerity) =>
        hist.bestComp = hist.maxComp

C10_EvaluateReturnsNeutralScores ==
    /\ ev.status # "raised"
    /\ (ev.status = "returned" /\ ev.last \in EvalFailures) =>
           ev.scores = _default_scores

\* the sixth request of an evaluate call failed like the five before it
C10_Witness ==
    /\ ev.status = "returned" /\ ev.reqs = eval_max_retries + 1
    /\ ev.last \in {"rate_limit", "auth", "other", "not_object"}
    /\ ev.scores = _default_scores

(***************************************************************************)
(* Specifications of the store                                             *)
(***************************************************************************)
\* the bot starts on a roster that migrate_users imported
BotInit ==
    LET \* the tables a committed migrate_users run leaves behind
        ImportedTables ==
            {InsertRows(<<>>, rows, 1).tbl :
                rows \in {f \in CsvFiles : InsertRows(<<>>, f, 1).ok}}
    IN
    /\ users \in ImportedTables
    /\ people = {}
    /\ holidays = {}
    /\ Idle

NextMint ==
    \/ \E p \in Procs : MintCall(p)
    \/ \E p \in Procs : MintAttempt(p)
    \/ \E p \in Procs : MintFallback(p)
    \/ \E p \in Procs : InsertUser(p)
    \/ migrate_users

NextBot ==
    \/ \E h \in Handlers : start_command_code(h)
    \/ \E h \in Handlers : start_command_plain(h)
    \/ \E h \in Handlers : start_command_reply(h)
    \/ UpdateByCode
    \/ UpdateById

SpecMint == IdleInit /\ [][NextMint]_vars

SpecBot == BotInit /\ [][NextBot]_vars

(***************************************************************************)
(* Properties of the store                                                 *)
(***************************************************************************)
\* C1: every code generate_unique_referral_code returns was looked up in the
\* store after it was built and found absent, on every return path.
C1_ReturnedCodeWasChecked ==
    \A p \in Procs : mint[p].pc = "returned" => mint[p].verified

\* C2: in every reachable state no two user rows hold the same non-null
\* referral_code, whatever the interleaving of minting calls, inserts and
\* imports.
C2_ReferralCodeUnique ==
    \A i, j \in DOMAIN users :
        (i # j /\ users[i].code # NULL) => users[i].code # users[j].code

\* a caller whose lookup found the code absent lost the race: its INSERT was
\* rejected while another row holds a code
C2_Witness ==
    /\ inserted = "rejected"
    /\ Cardinality({users[i].code : i \in DOMAIN users} \ {NULL}) = 2

\* C3: once a row's telegram_chat_id is non-empty, neither
\* update_user_chat_id (by code or by id) nor /start (with a code or by an
\* admin without one) changes or clears it.
C3_ChatIdNeverRebound ==
    [][\A i \in DOMAIN users :
        Truthy(users[i].chat) =>
            (i \in DOMAIN users' /\ users'[i].chat = users[i].chat)]_vars

\* C4: a /start with a code binds the sender's chat exactly when the code
\* belongs to a row that is not bound yet; every other /start with a code is
\* rejected and leaves the table as it was, also while another handler of
\* the same code is still awaiting its reply.
C4_CodeUsableOnce ==
    [][\A h \in Handlers :
        (hnd[h].pc = "idle" /\ hnd'[h].pc = "reply" /\ hnd'[h].arg # "") =>
            LET hit == get_user_by_referral_code(users, hnd'[h].arg)
            IN  IF hit # {} /\ \A i \in hit : ~Truthy(users[i].chat)
                THEN /\ hnd'[h].reply = "activated"
                     /\ users' = [i \in DOMAIN users |->
                            IF i \in hit
                            THEN [users[i] EXCEPT !.chat = Str(hnd'[h].chat_id)]
                            ELSE users[i]]
                ELSE /\ hnd'[h].reply \in {"used", "invalid"}
                     /\ users' = users]_vars

\* two /start commands with the same code from different chats are in
\* flight together: one was activated, the other was told the code is used
C4_Witness ==
    /\ hnd["h1"].pc = "reply" /\ hnd["h2"].pc = "reply"
    /\ hnd["h1"].arg = hnd["h2"].arg /\ hnd["h1"].arg # ""
    /\ hnd["h1"].chat_id # hnd["h2"].chat_id
    /\ hnd["h1"].reply = "activated" /\ hnd["h2"].reply = "used"
    /\ \E i \in DOMAIN users :
         users[i].code = hnd["h1"].arg /\ users[i].chat = Str(hnd["h1"].chat_id)

(***************************************************************************)
(* Specifications of the matching queries, of the daily dispatch and of    *)
(* the code minter                                                         *)
(***************************************************************************)
\* the tables hold some of the sample rows; nothing has been asked yet
QueryInit ==
    LET SamplePeople ==
            LET \* a row of table users
                Person(id, gender, user_type, interests, birth_date, telegram_chat_id) ==
                    [id |-> id, gender |-> gender, user_type |-> user_type,
                     interests |-> interests, birth_date |-> birth_date,
                     telegram_chat_id |-> telegram_chat_id]
            IN
            { Person(1, <<"M", "a", "l", "e">>, employee, <<"I", "T">>,
                     BirthDate(1), <<"1">>),
              Person(2, female, client, gadzhety, BirthDate(2), <<"2">>),
              Person(3, male, client, NoText, BirthDate(3), NoText),
              Person(4, female, employee, <<"s", "p", "o", "r", "t">>, NoText, <<>>),
              Person(5, NoText, client, <<"f", "i", "t", "n", "e", "s", "s">>,
                     BirthDate(5), <<"5">>) }
    IN
    /\ people \in SUBSET SamplePeople
    /\ holidays \in { {}, SampleHolidays,
                       {h \in SampleHolidays : h.id \in {1, 3}},
                       {h \in SampleHolidays : h.id \in {2, 4}} }
    /\ users = <<>>
    /\ Idle

NextQuery ==
    \/ birthday_query
    \/ holiday_query
    \/ audience_query
    \/ query_return

SpecQuery == QueryInit /\ [][NextQuery]_vars

NextDispatch ==
    \/ dispatch_start
    \/ birthday_step
    \/ resolve_recipients
    \/ holiday_step
    \/ dispatch_return
    \/ dispatch_next

SpecDispatch == QueryInit /\ [][NextDispatch]_vars

NextCode ==
    \/ code_call
    \/ code_attempt
    \/ code_fallback
    \/ code_persist

SpecCode == IdleInit /\ [][NextCode]_vars

(***************************************************************************)
(* Properties of the daily dispatch                                        *)
(***************************************************************************)

\* C11: when a run of check_and_send_greetings_for_date is over, every due
\* birthday person and every (holiday, recipient) pair of the date was
\* either handed to its send function or skipped for having no chat id;
\* no problem with one person keeps the others from being processed.
C11_ProblemsDoNotStopDispatch ==
    LET \* the (holiday, recipient) pairs of the date of the run
        DuePairs ==
            {it \in {<<"holiday", u, h>> : u \in people, h \in disp.holidays} :
                it[2] \in get_users_for_holiday(people, it[3]).rows}
    IN
    disp.pc \in {"done", "raised"} =>
        /\ \A u \in disp.birthdays :
              <<"birthday", u>> \in disp.attempted \cup disp.skipped
        /\ DuePairs \subseteq disp.attempted \cup disp.skipped

(***************************************************************************)
(* Properties of the matching queries                                      *)
(***************************************************************************)
\* the rows of the roster with a bound chat id
EligiblePeople == {u \in people : u.telegram_chat_id \notin {NoText, <<>>}}

C13_RecipientsAreBound ==
    q.fn = "get_users_for_holiday" =>
        \A u \in q.res.rows :
            u.telegram_chat_id # NoText /\ u.telegram_chat_id # <<>>

\* the rule for everyone answered on a roster that holds a row with a NULL
\* and a row with an empty chat id
C13_Witness ==
    /\ q.fn = "get_users_for_holiday"
    /\ q.holiday.description = dlya_vsekh
    /\ q.res.rows # {}
    /\ \E u \in people : u.telegram_chat_id = NoText
    /\ \E u \in people : u.telegram_chat_id = <<>>

\* C14: for a valid date in either layout the date queries answer with the
\* rows of that month and day, whatever the stored year and the layout.
C14_MatchOnMonthAndDay ==
    LET \* the calendar day of each sample holiday, <<month, day>>
        HolidayDay == [i \in 1..4 |->
                          CASE i = 1 -> <<3, 8>>
                            [] i = 2 -> <<3, 8>>
                            [] i = 3 -> <<8, 3>>
                            [] i = 4 -> <<12, 31>>]
    IN
    q.date.valid =>
        /\ ~q.res.raised
        /\ q.fn = "get_users_by_birthday" =>
              q.res.rows = {u \in people :
                               /\ u.id \in DOMAIN Born
                               /\ Born[u.id][2] = q.date.m
                               /\ Born[u.id][3] = q.date.d}
        /\ q.fn = "get_holidays_by_date" =>
              q.res.rows = {h \in holidays :
                               HolidayDay[h.id] = <<q.date.m, q.date.d>>}

\* the birthdays of 8 March asked for as year-month-day gave two people
\* born in different years
C14_Witness ==
    /\ q.fn = "get_users_by_birthday"
    /\ q.date.text = strftime("%Y-%m-%d", 2024, 3, 8)
    /\ \E u, v \in q.res.rows : Born[u.id][1] # Born[v.id][1]

\* C15: the date queries never raise, and a string that is not a complete
\* date gives the empty list.
C15_DateQueriesNeverRaise ==
    q.fn \in {"get_users_by_birthday", "get_holidays_by_date"} =>
        /\ ~q.res.raised
        /\ ~q.date.valid => q.res.rows = {}

(***************************************************************************)
(* Properties of the code minter                                           *)
(***************************************************************************)
\* C16: a returned code shows none of the characters 0 O o 1 I l.
C16_NoAmbiguousCharacters ==
    LET \* the characters the code must not show: 0 O o 1 I l
        Ambiguous == {"0", "O", "o", "1", "I", "l"}
    IN
    cm.pc = "returned" =>
        \A i \in DOMAIN cm.code : cm.code[i] \notin Ambiguous

\* C17: a returned code differs from every code the caller got before.
C17_SequentialCodesDistinct ==
    cm.pc = "returned" => cm.code \notin cm.returned

\* C18: a returned code has exactly the length that was asked for.
C18_CodeHasRequestedLength ==
    cm.pc = "returned" => Len(cm.code) = cm.length

C20_ImportedRowsHaveCode ==
    \A i \in DOMAIN users : users[i].code # NULL

\* C21: an authentication or configuration fault of the content service
\* ends the call at the request that met it: generate raises, and evaluate
\* lets the fault out, without a further request and without a sleep.
C21_AuthFaultSurfacedAtOnce ==
    /\ hist.lastGen = "auth" => g.pc = "raised"
    /\ ev.last = "auth" => ev.status = "raised"

\* C23: the sleep that follows the k-th rate-limited request of a call
\* (k = 0 for the first) lasts min(5 * 2^k, 120) seconds, in generate and
\* in evaluate, whatever other faults and successful requests the call saw.
C23_BackoffFollowsRateLimitCount ==
    /\ (hist.lastGen = "rate_limit" /\ g.err # "rate_limit") =>
          g.sleep = Min2(base_delay * (2 ^ (hist.rlFaults - 1)), max_delay)
    /\ (ev.last = "rate_limit" /\ ev.status = "running") =>
          ev.sleep = Min2(base_delay * (2 ^ (ev.rl - 1)), max_delay)

\* C27: the evaluator is called once for an attempt: when the attempt is
\* decided on, the scores of the decision are the scores that were recorded
\* for the best text so far.
C27_DecisionUsesRecordedScore ==
    (g.pc = "scored2" /\ g.best_text = g.attempt + 1) =>
        ev.scores.s = g.best_sinc

\* C28: once an attempt of a call with evaluation has given a scored text,
\* the call does not end by raising.
C28_ScoredTextIsReturned ==
    (g.evaluate_sincerity /\ g.best_text # 0) => g.pc # "raised"

\* C28 as amended: once an attempt of a call with evaluation enabled has
\* been scored, the call returns the best text so far, except that a fault
\* other than rate limiting on the last attempt (attempt = max_retries), or
\* going over the rate-limit ceiling, still raises; a fault on an earlier
\* attempt or a rate-limit fault under the ceiling does not end the call.
C28_ScoredTextReturnedUnlessFatalFault ==
    (g.evaluate_sincerity /\ g.best_text # 0) =>
        /\ g.pc = "returned" => g.result = g.best_text
        /\ g.pc = "raised" =>
              \/ /\ g.err = "rate_limit"
                 /\ g.rate_limit_retries > max_rate_limit_retries
              \/ /\ g.err = "other"
                 /\ g.attempt = g.max_retries
                 /\ hist.lastGen \notin {"ok", "ok_tag_only", "rate_limit"}

\* a later request of the call faulted and the scored text was returned
C28_Witness ==
    /\ g.evaluate_sincerity
    /\ g.pc = "returned"
    /\ g.result = g.best_text
    /\ g.result < hist.genReqs
    /\ hist.lastGen = "rate_limit"

\* C24: when none of the first five rules applies, the interest rule fires
\* on a description with an IT, technology, cybersecurity or gadgets marker
\* (or a holiday name with the cybersecurity marker) and then answers with
\* exactly the eligible users whose interests hold "IT" as a whole token, or
\* the cybersecurity, technology or gadgets word; the letters "it" inside a
\* longer word do not select a user.
C24_InterestRuleMatchesMarkers ==
    (q.fn = "get_users_for_holiday" /\ q.holiday.description # NoText) =>
        LET d == str_lower(q.holiday.description)
            letters == ascii_lowercase \o cyrillic_lowercase
            is_letter(c) == \E k \in 1..Len(letters) : letters[k] = c
            it_token(s) ==
                /\ s # NoText
                /\ \E i \in 1..(Len(s) - 1) :
                     /\ SubSeq(str_lower(s), i, i + 1) = <<"i", "t">>
                     /\ i > 1 => ~is_letter(str_lower(s)[i - 1])
                     /\ i + 2 <= Len(s) => ~is_letter(str_lower(s)[i + 2])
            word(s, w) == s # NoText /\ In(w, str_lower(s))
            earlier == \/ In(dlya_vsekh, d) \/ In(dlya_muzhchin, d)
                       \/ In(dlya_zhenshchin, d) \/ In(dlya_sotrudnikov, d)
                       \/ In(dlya_klientov, d)
            marker == \/ it_token(d) \/ In(tekhnologii, d)
                      \/ In(kiberbezopasnost, d) \/ In(gadzhety, d)
                      \/ In(kiberbezopasnost, str_lower(q.holiday.holiday_name))
        IN  (~earlier /\ marker) =>
                q.res.rows = {u \in EligiblePeople :
                                 \/ it_token(u.interests)
                                 \/ word(u.interests, kiberbezopasnost \o <<"csoft">>)
                                 \/ word(u.interests, tekhnologii)
                                 \/ word(u.interests, gadzhety)}

\* C29: a /start command (with a code, or by an admin without one) never
\* leaves two user records holding the same non-empty telegram_chat_id when
\* no two records held the same one before it.
C29_ChatIdBoundToOneRecord ==
    [][LET OneHolder(tbl) ==
               \A i, j \in DOMAIN tbl :
                   (i # j /\ Truthy(tbl[i].chat)) => tbl[i].chat # tbl[j].chat
           started == \E h \in Handlers :
                          hnd[h].pc = "idle" /\ hnd'[h].pc = "reply"
       IN  (started /\ OneHolder(users)) => OneHolder(users')]_vars

NextText ==
    \/ response_text
    \/ convert_text
    \/ text_done

SpecText == IdleInit /\ [][NextText]_vars

\* C25: every text generate returns for a non-empty response contains both
\* signature markers, "С уважением" and "Сбер".
C25_ReturnedTextIsSigned ==
    tx.pc = "returned" =>
        In(s_uvazheniem, tx.returned) /\ In(sber, tx.returned)

\* C26: a later step of markdown_to_telegram_html rewrites nothing inside a
\* tag an earlier step produced: the link of the response comes out as an
\* anchor whose href is the URL as written.
C26_LinkUrlLeftUntouched ==
    (tx.pc = "returned" /\ tx.url # <<>>) =>
        In(<<"<", "a", " ", "h", "r", "e", "f", "=", "\"">> \o tx.url
               \o <<"\"", ">">>,
           tx.returned)

NextLoop ==
    \/ message_arrives
    \/ take_update
    \/ job_due
    \/ reply_done
    \/ \E t \in Tasks : dispatch_greeting(t)
    \/ \E t \in Tasks : wake(t)
    \/ \E t \in Tasks : send_done(t)

SpecLoop == IdleInit /\ [][NextLoop]_vars

\* C22: while a generate call sleeps in backoff, the sleep holds up only the
\* task that made the call: an update that is waiting can be handled, the
\* scheduler's job can start, and the other task can go on from its await.
C22_SleepBlocksOnlyItsTask ==
    \A t \in Tasks :
        rt.task[t].pc = "backoff" =>
            /\ (rt.inbox # <<>> /\ rt.task.update.pc = "idle") =>
                   ENABLED take_update
            /\ rt.task.job.pc = "idle" => ENABLED job_due
            /\ \A o \in Tasks \ {t} :
                   rt.task[o].pc = "send" => ENABLED send_done(o)

\* C30: only admins drive the mode state.  A step that changes auto_mode or
\* current_date is the handling of a message (not /start) of a user in
\* admin_ids whose stripped text is "+", "-" or a DD.MM.YYYY date; the
\* handling of a message of anyone else changes neither and leaves the
\* handler without a dispatch to do; and the handler of updates enters
\* check_and_send_greetings_for_date only for an admin's date message.
C30_OnlyAdminsDriveMode ==
    [][LET taken == Len(rt'.inbox) < Len(rt.inbox)
           m == Head(rt.inbox)
           command(msg) ==
               /\ msg.user \in admin_ids
               /\ ~msg.start
           is_date(msg) ==
               LET parts == split(strip(msg.text), ".")
               IN  /\ Len(parts) = 3
                   /\ \A p \in 1..3 :
                          /\ parts[p] # <<>>
                          /\ \A k \in 1..Len(parts[p]) :
                                 IndexOf(digits, parts[p][k]) # 0
       IN  /\ (rt'.auto_mode # rt.auto_mode \/ rt'.current_date # rt.current_date)
                 => /\ taken
                    /\ command(m)
                    /\ \/ strip(m.text) \in {<<"+">>, <<"-">>}
                       \/ is_date(m)
           /\ (taken /\ m.user \notin admin_ids)
                 => /\ rt'.auto_mode = rt.auto_mode
                    /\ rt'.current_date = rt.current_date
                    /\ rt'.task.update.date = <<>>
           /\ (rt'.task.update.pc = "dispatch" /\ rt.task.update.pc = "reply")
                 => command(rt.task.update.msg) /\ is_date(rt.task.update.msg)]_vars

\* a date message of a user who is not an admin has been handled: the bot
\* is still in automatic mode without a date and its handler is idle
C30_Witness ==
    /\ rt.last.user \notin admin_ids
    /\ rt.last.user # 0
    /\ strptime_ok(strip(rt.last.text))
    /\ rt.task.update.pc = "idle"
    /\ rt.auto_mode
    /\ rt.current_date = <<>>

=============================================================================
